---- MODULE Spec2Model ----
(***************************************************************************)
(* Model of src/src/app/page.tsx: the Page component of the CV Comparison  *)
(* tool.  The component state (tor, files, loading, error, data), the      *)
(* values derived from data on every render (mapCriteria, sortedMatrix,    *)
(* allCriteria, getFulfillmentForCandidate), the results view the render   *)
(* returns and the document generateDocxReport builds.  sortedMatrix is    *)
(* the constant of the last committed render, fulfillments the maps that    *)
(* render built (one per candidate, line 1008), view its results view and  *)
(* doc the report generated from the result on display.  inFlight counts   *)
(* the fetch calls of handleSubmit that have not settled yet.              *)
(*                                                                         *)
(* A JSON object is a record; a field that is absent (undefined or null)   *)
(* is a key that is not in the record's DOMAIN.  A JSON array is a         *)
(* sequence.  Numbers are integers.  Both renderings are sequences of      *)
(* content nodes, each node a tuple of strings whose first element is the  *)
(* node's role.                                                            *)
(***************************************************************************)
EXTENDS Integers, Sequences, FiniteSets, TLC

VARIABLES tor, files, loading, error, data, sortedMatrix, fulfillments, view, doc,
          inFlight

vars == <<tor, files, loading, error, data, sortedMatrix, fulfillments, view, doc, inFlight>>

(***************************************************************************)
(* Bounds of the model.                                                    *)
(***************************************************************************)
MaxCriteria == 2
MaxEvals == 2
MaxMatrix == 3
MaxWhyNot == 2
MaxRank == 2
\* One selection or drop adds up to MaxDrop files.
MaxDrop == 2
\* The requests in flight are counted up to MaxInFlight.
MaxInFlight == 2

(***************************************************************************)
(* JavaScript values.                                                      *)
(***************************************************************************)
Null == [null |-> TRUE]

Has(o, f) == f \in DOMAIN o

\* Number.prototype.toFixed(2) on an integer value.
toFixed2(n) == ToString(n) \o ".00"

\* x?.toFixed(2) || "N/A" (export) and x != null ? x.toFixed(2) : "N/A" (view):
\* the string toFixed returns is never empty, so both give "N/A" exactly when
\* the field is absent.
\* A plausible slip: a truthiness test, which takes the score 0 for absent.
scoreTextFalsy(o, f) == IF Has(o, f) /\ o[f] # 0 THEN toFixed2(o[f]) ELSE "N/A"

scoreText(o, f) == IF Has(o, f) THEN toFixed2(o[f]) ELSE "N/A"

\* o.f || fallback for a string field: the fallback replaces an absent field
\* and the empty string.
textOr(o, f, fallback) == IF Has(o, f) /\ o[f] # "" THEN o[f] ELSE fallback

\* o?.f for an object field: the empty object stands for undefined, every
\* further ?. on it is undefined again.
sub(o, f) == IF Has(o, f) THEN o[f] ELSE [undefined |-> TRUE]

\* All sequences over S of length at most n.
SeqUpTo(S, n) == UNION {[1..k -> S] : k \in 0..n}

RECURSIVE flat(_)
flat(ss) == IF ss = <<>> THEN <<>> ELSE Head(ss) \o flat(Tail(ss))

\* Array.prototype.map
map(s, F(_)) == [i \in 1..Len(s) |-> F(s[i])]

\* Array.prototype.flatMap
flatMap(s, F(_)) == flat([i \in 1..Len(s) |-> F(s[i])])

\* Array.prototype.find, as the index of the first element satisfying P
\* (0 when there is none).
findIndex(s, P(_)) ==
    IF \E i \in 1..Len(s) : P(s[i])
    THEN CHOOSE i \in 1..Len(s) : P(s[i]) /\ \A j \in 1..(i - 1) : ~P(s[j])
    ELSE 0

(***************************************************************************)
(* mapCriteria (lines 180-210).                                            *)
(***************************************************************************)
\* data.criteria.find(c => c.criterion === name)?.weight || dflt
weightOr(criteria, name, dflt) ==
    LET i == findIndex(criteria, LAMBDA c : Has(c, "criterion") /\ c.criterion = name)
    IN  IF i # 0 /\ Has(criteria[i], "weight") /\ criteria[i].weight # 0
        THEN criteria[i].weight
        ELSE dflt

\* A plausible slip: only the sub-criteria found in criteria are listed.
mapCriteriaOnlyFound(d) ==
    IF d = Null \/ ~Has(d, "criteria") THEN <<>>
    ELSE LET found(n) == \E i \in 1..Len(d.criteria) :
                             Has(d.criteria[i], "criterion") /\ d.criteria[i].criterion = n
             item(n, w) == IF found(n) THEN <<[name |-> n, weight |-> weightOr(d.criteria, n, w)]>>
                           ELSE <<>>
         IN <<
           [category |-> "General Qualifications", weight |-> "20%",
            subitems |-> item("Education", 10) \o item("Years of Experience", 10)],
           [category |-> "Adequacy for the Assignment", weight |-> "50%",
            subitems |-> item("Relevant Project Experience", 25)
                         \o item("Donor Experience (WB, ADB, etc.)", 15)
                         \o item("Regional Experience", 10)],
           [category |-> "Specific Skills & Competencies", weight |-> "30%",
            subitems |-> item("Technical Skills", 15) \o item("Language Proficiency", 10)
                         \o item("Certifications", 5)]
         >>

mapCriteria(d) ==
    IF d = Null \/ ~Has(d, "criteria") THEN <<>>
    ELSE LET item(n, w) == [name |-> n, weight |-> weightOr(d.criteria, n, w)]
         IN <<
           [category |-> "General Qualifications", weight |-> "20%",
            subitems |-> << item("Education", 10), item("Years of Experience", 10) >>],
           [category |-> "Adequacy for the Assignment", weight |-> "50%",
            subitems |-> << item("Relevant Project Experience", 25),
                            item("Donor Experience (WB, ADB, etc.)", 15),
                            item("Regional Experience", 10) >>],
           [category |-> "Specific Skills & Competencies", weight |-> "30%",
            subitems |-> << item("Technical Skills", 15),
                            item("Language Proficiency", 10),
                            item("Certifications", 5) >>]
         >>

(***************************************************************************)
(* sortedMatrix (line 212).                                                *)
(***************************************************************************)
\* (a, b) => a.rank - b.rank; a NaN result (a rank is absent) counts as 0.
compareRankDescending(a, b) ==
    IF Has(a, "rank") /\ Has(b, "rank") THEN b.rank - a.rank ELSE 0

compareRank(a, b) ==
    IF Has(a, "rank") /\ Has(b, "rank") THEN a.rank - b.rank ELSE 0

\* A sort that is not stable: an element moves in front of the elements that
\* compare equal to it.
RECURSIVE insertBeforeEqual(_, _)
insertBeforeEqual(t, x) ==
    IF t = <<>> \/ compareRank(t[Len(t)], x) < 0
    THEN Append(t, x)
    ELSE Append(insertBeforeEqual(SubSeq(t, 1, Len(t) - 1), x), t[Len(t)])

\* Array.prototype.sort is stable: x goes behind every element that does not
\* compare greater than it.
RECURSIVE insertStable(_, _)
insertStable(t, x) ==
    IF t = <<>> \/ compareRank(t[Len(t)], x) <= 0
    THEN Append(t, x)
    ELSE Append(insertStable(SubSeq(t, 1, Len(t) - 1), x), t[Len(t)])

RECURSIVE sort(_)
sort(m) ==
    IF m = <<>> THEN <<>>
    ELSE insertStable(sort(SubSeq(m, 1, Len(m) - 1)), m[Len(m)])

\* data?.comparison_matrix ? [...data.comparison_matrix].sort(...) : []
computeSortedMatrix(d) ==
    IF d # Null /\ Has(d, "comparison_matrix") THEN sort(d.comparison_matrix) ELSE <<>>

\* A plausible slip: data.comparison_matrix.sort(...) without the spread sorts
\* the received array itself.
sortInPlace(d) ==
    IF d # Null /\ Has(d, "comparison_matrix")
    THEN [d EXCEPT !.comparison_matrix = sort(@)]
    ELSE d

\* The array sort() works on is the copy the spread makes: data is what it was.
dataAfterSort(d) == d

(***************************************************************************)
(* allCriteria and getFulfillmentForCandidate (lines 214-227).             *)
(***************************************************************************)
\* data?.criteria.map(...): with data set and criteria absent, .map is read
\* from undefined.
allCriteriaThrows(d) == d # Null /\ ~Has(d, "criteria")

\* A plausible slip: only the criteria of the fixed hierarchy get a column.
allCriteriaKnown(d) ==
    IF d = Null \/ ~Has(d, "criteria") THEN <<>>
    ELSE LET h == mapCriteria(d)
             known == UNION {{h[k].subitems[i].name : i \in DOMAIN h[k].subitems} :
                                k \in DOMAIN h}
         IN  SelectSeq([i \in 1..Len(d.criteria) |-> d.criteria[i].criterion],
                       LAMBDA n : n \in known)

allCriteria(d) ==
    IF d = Null \/ ~Has(d, "criteria") THEN <<>>
    ELSE [i \in 1..Len(d.criteria) |-> d.criteria[i].criterion]

\* candidate.detailed_evaluation.find is reached for the first criterion.
fulfillmentThrows(candidate, crits) ==
    crits # <<>> /\ ~Has(candidate, "detailed_evaluation")

\* A plausible slip: score >= 0 instead of score > 0.
fulfillmentValueScoreGE(candidate, crit) ==
    LET des == candidate.detailed_evaluation
        i == findIndex(des, LAMBDA de : Has(de, "criterion") /\ de.criterion = crit)
    IN  IF /\ i # 0
           /\ Has(des[i], "score") /\ des[i].score >= 0
           /\ Has(des[i], "justification") /\ des[i].justification # ""
           /\ des[i].justification # "No evidence in CV."
        THEN des[i].justification
        ELSE "No work here"

\* A plausible slip: the justification is not tested for being empty.
fulfillmentValueNoEmptyTest(candidate, crit) ==
    LET des == candidate.detailed_evaluation
        i == findIndex(des, LAMBDA de : Has(de, "criterion") /\ de.criterion = crit)
    IN  IF /\ i # 0
           /\ Has(des[i], "score") /\ des[i].score > 0
           /\ Has(des[i], "justification")
           /\ des[i].justification # "No evidence in CV."
        THEN des[i].justification
        ELSE "No work here"

\* A plausible slip: the last entry of the name is taken instead of the first.
fulfillmentValueLastMatch(candidate, crit) ==
    LET des == candidate.detailed_evaluation
        named == {k \in 1..Len(des) : Has(des[k], "criterion") /\ des[k].criterion = crit}
        i == IF named = {} THEN 0 ELSE CHOOSE k \in named : \A l \in named : l <= k
    IN  IF /\ i # 0
           /\ Has(des[i], "score") /\ des[i].score > 0
           /\ Has(des[i], "justification") /\ des[i].justification # ""
           /\ des[i].justification # "No evidence in CV."
        THEN des[i].justification
        ELSE "No work here"

\* The body of the forEach callback (lines 219-224).
fulfillmentValue(candidate, crit) ==
    LET des == candidate.detailed_evaluation
        i == findIndex(des, LAMBDA de : Has(de, "criterion") /\ de.criterion = crit)
    IN  IF /\ i # 0
           /\ Has(des[i], "score") /\ des[i].score > 0
           /\ Has(des[i], "justification") /\ des[i].justification # ""
           /\ des[i].justification # "No evidence in CV."
        THEN des[i].justification
        ELSE "No work here"

\* fulfillmentMap after the forEach over the first n criteria: a later
\* assignment to the same key replaces the earlier one.
RECURSIVE fulfillmentUpTo(_, _, _)
fulfillmentUpTo(candidate, crits, n) ==
    IF n = 0 THEN << >>
    ELSE (crits[n] :> fulfillmentValue(candidate, crits[n]))
         @@ fulfillmentUpTo(candidate, crits, n - 1)

getFulfillmentForCandidate(candidate, crits) ==
    fulfillmentUpTo(candidate, crits, Len(crits))

(***************************************************************************)
(* Content shared by the two renderings.                                   *)
(***************************************************************************)
arr(o, f) == IF Has(o, f) THEN o[f] ELSE <<>>

\* A plausible slip: whatever is not an object is taken for text.
isStringNotObject(j) == ~(Has(j, "typeof") /\ j.typeof = "object")

\* A plausible slip: a truthiness test in front of the typeof test, so that the
\* empty string takes the structured branch.
isStringTruthy(j) == Has(j, "typeof") /\ j.typeof = "string" /\ j.value # ""

\* typeof x === "string"
isString(j) == Has(j, "typeof") /\ j.typeof = "string"

categoryNodes(category) ==
    << <<"category", category.category \o " - " \o category.weight>> >>
    \o [i \in 1..Len(category.subitems) |->
          <<"subitem", category.subitems[i].name,
            ToString(category.subitems[i].weight) \o "%">>]

rankText(m) == IF Has(m, "rank") THEN ToString(m.rank) ELSE "N/A"

(***************************************************************************)
(* The results view (lines 653-1030), section by section.                  *)
(***************************************************************************)
viewToR(d) ==
    << <<"section", "Terms of Reference">>,
       <<"text", textOr(d, "tor_text", "No ToR text provided.")>> >>

viewCriteria(d) ==
    << <<"section", "Evaluation Criteria">> >>
    \o flatMap(mapCriteria(d), categoryNodes)
    \o << <<"category", "Total Score - 100%">> >>

viewEvaluation(e) ==
    <<"evaluation",
      textOr(e, "criterion", "N/A"),
      IF Has(e, "weight") THEN ToString(e.weight) \o "%" ELSE "N/A",
      scoreText(e, "score"),
      textOr(e, "justification", "None provided.")>>

viewCandidate(c) ==
    LET scores == sub(c, "scores")
        gq == sub(scores, "general_qualifications")
        aa == sub(scores, "adequacy_for_assignment")
        sk == sub(scores, "specific_skills_competencies")
        sj == sub(c, "summary_justification")
    IN  << <<"candidate", textOr(c, "candidate_name", "Unnamed Candidate")>>,
           <<"recommendation", textOr(c, "recommendation", "Not Evaluated")>>,
           <<"strengths", textOr(sj, "key_strengths", "None provided.")>>,
           <<"weaknesses", textOr(sj, "key_weaknesses", "None provided.")>>,
           <<"category", "General Qualifications - 20%">>,
           <<"score", "Education", scoreText(gq, "education")>>,
           <<"score", "Years of Experience", scoreText(gq, "years_of_experience")>>,
           <<"category", "Adequacy for the Assignment - 50%">>,
           <<"score", "Relevant Project Experience", scoreText(aa, "relevant_project_experience")>>,
           <<"score", "Donor Experience (WB, ADB, etc.)", scoreText(aa, "donor_experience")>>,
           <<"score", "Regional Experience", scoreText(aa, "regional_experience")>>,
           <<"category", "Specific Skills & Competencies - 30%">>,
           <<"score", "Technical Skills", scoreText(sk, "technical_skills")>>,
           <<"score", "Language Proficiency", scoreText(sk, "language_proficiency")>>,
           <<"score", "Certification", scoreText(sk, "certifications")>>,
           <<"category", "Total Score - 100%">>,
           <<"score", "Total", scoreText(scores, "total_score")>>,
           <<"note", "(This score is approximate and can fluctuate by plus or minus 5)">>,
           <<"heading", "Detailed Evaluations">> >>
        \o map(arr(c, "detailed_evaluation"), viewEvaluation)

viewCandidates(d) ==
    << <<"section", "Candidates">> >> \o flatMap(arr(d, "candidates"), viewCandidate)

viewRankingRow(m) ==
    <<"row", textOr(m, "candidate_name", "Unnamed Candidate"), rankText(m)>>

viewRanking(sm) ==
    << <<"section", "Comparison Ranking">>, <<"header", "Name", "Rank">> >>
    \o map(sm, viewRankingRow)

viewWhyNot(other) ==
    << <<"whynot-candidate", textOr(other, "candidate_name", "Unnamed Candidate")>>,
       <<"whynot-reason", textOr(other, "reason", "No reason provided.")>> >>

viewJustification(j) ==
    IF isString(j)
    THEN << <<"block", "Justification">>,
            <<"text", textOr(j, "value", "No justification provided.")>> >>
    ELSE << <<"block", "Detailed Explanation">>,
            <<"text", textOr(j, "detailed_explanation", "No detailed explanation provided.")>>,
            <<"block", "Why Recommended Candidate">>,
            <<"text", textOr(j, "why_he", "No reason provided for recommended candidate.")>>,
            <<"block", "Why Not Other Candidates">> >>
         \o flatMap(arr(j, "why_not_others"), viewWhyNot)
         \o (IF arr(j, "why_not_others") = <<>>
             THEN << <<"empty", "No other candidates evaluated.">> >>
             ELSE <<>>)

viewFinal(d) ==
    LET fr == sub(d, "final_recommendation")
    IN  << <<"section", "Final Recommendation">>,
           <<"best", textOr(fr, "best_candidate", "None")>>,
           <<"decision", textOr(fr, "final_decision", "Not Evaluated")>> >>
        \o viewJustification(sub(fr, "justification"))

viewTableRow(c, crits) ==
    LET fulfillment == getFulfillmentForCandidate(c, crits)
    IN  <<"row", textOr(c, "candidate_name", "Unnamed Candidate")>>
        \o [i \in 1..Len(crits) |-> fulfillment[crits[i]]]

viewTable(d) ==
    << <<"section", "CV Comparison Table">>,
       <<"header", "Candidate Name">> \o allCriteria(d) >>
    \o [i \in 1..Len(arr(d, "candidates")) |-> viewTableRow(d.candidates[i], allCriteria(d))]

\* The component body throws before or while the view is built.
renderThrows(d) ==
    \/ allCriteriaThrows(d)
    \/ \E i \in 1..Len(arr(d, "candidates")) :
           fulfillmentThrows(d.candidates[i], allCriteria(d))

viewNodes(d, sm) ==
    viewToR(d) \o viewCriteria(d) \o viewCandidates(d)
    \o viewRanking(sm) \o viewFinal(d) \o viewTable(d)

(***************************************************************************)
(* generateDocxReport (lines 229-468): the children of the document's one  *)
(* section, in the order of the array literal.                             *)
(***************************************************************************)
\* `${x}` of a string field: an absent field prints as "undefined".
templateText(o, f) == IF Has(o, f) THEN o[f] ELSE "undefined"

docTitle == << <<"title", "CV Comparison Report">> >>

docToR(reportData) ==
    << <<"section", "Terms of Reference">>,
       <<"text", textOr(reportData, "tor_text", "No ToR text provided.")>> >>

\* mapCriteria() reads the component's data, not reportData.
docCriteria(d) ==
    << <<"section", "Evaluation Criteria">> >> \o flatMap(mapCriteria(d), categoryNodes)

docEvaluation(e) ==
    <<"evaluation",
      templateText(e, "criterion"),
      (IF Has(e, "weight") THEN ToString(e.weight) ELSE "undefined") \o "%",
      scoreText(e, "score"),
      textOr(e, "justification", "None provided.")>>

docCandidate(c) ==
    LET scores == sub(c, "scores")
        gq == sub(scores, "general_qualifications")
        aa == sub(scores, "adequacy_for_assignment")
        sk == sub(scores, "specific_skills_competencies")
        sj == sub(c, "summary_justification")
    IN  << <<"candidate", textOr(c, "candidate_name", "Unnamed Candidate")>>,
           <<"recommendation", textOr(c, "recommendation", "Not Evaluated")>>,
           <<"score", "Total Score", scoreText(scores, "total_score")>>,
           <<"strengths", textOr(sj, "key_strengths", "None provided.")>>,
           <<"weaknesses", textOr(sj, "key_weaknesses", "None provided.")>>,
           <<"heading", "Scores">>,
           <<"category", "General Qualifications">>,
           <<"score", "Education", scoreText(gq, "education")>>,
           <<"score", "Years of Experience", scoreText(gq, "years_of_experience")>>,
           <<"category", "Adequacy for the Assignment">>,
           <<"score", "Relevant Project Experience", scoreText(aa, "relevant_project_experience")>>,
           <<"score", "Donor Experience", scoreText(aa, "donor_experience")>>,
           <<"score", "Regional Experience", scoreText(aa, "regional_experience")>>,
           <<"category", "Specific Skills & Competencies">>,
           <<"score", "Technical Skills", scoreText(sk, "technical_skills")>>,
           <<"score", "Language Proficiency", scoreText(sk, "language_proficiency")>>,
           <<"score", "Certifications", scoreText(sk, "certifications")>>,
           <<"heading", "Detailed Evaluation">> >>
        \o map(c.detailed_evaluation, docEvaluation)

\* A plausible slip: the candidates are walked in the order of the sorted
\* matrix, each name looked up in candidates.
docCandidatesByRank(reportData) ==
    LET sm == computeSortedMatrix(reportData)
        ranked == flat([i \in 1..Len(sm) |->
                          SelectSeq(reportData.candidates,
                                    LAMBDA c : c.candidate_name = sm[i].candidate_name)])
    IN  << <<"section", "Candidates">> >> \o flatMap(ranked, docCandidate)

docCandidates(reportData) ==
    << <<"section", "Candidates">> >> \o flatMap(reportData.candidates, docCandidate)

docRankingRow(m) ==
    <<"row", textOr(m, "candidate_name", "Unnamed Candidate"),
      scoreText(m, "total_score"), rankText(m)>>

\* sortedMatrix is the constant of the render the handler was created in.
docRanking(sm) ==
    << <<"section", "Comparison Ranking">>,
       <<"header", "Candidate Name", "Total Score", "Rank">> >>
    \o map(sm, docRankingRow)

docWhyNot(other) ==
    << <<"whynot-candidate", textOr(other, "candidate_name", "Unnamed Candidate")>>,
       <<"whynot-reason", textOr(other, "reason", "No reason provided.")>> >>

docJustification(j) ==
    IF isString(j)
    THEN << <<"block", "Justification">>,
            <<"text", textOr(j, "value", "No justification provided.")>> >>
    ELSE << <<"block", "Detailed Explanation">>,
            <<"text", textOr(j, "detailed_explanation", "No detailed explanation provided.")>>,
            <<"block", "Why Recommended Candidate">>,
            <<"text", textOr(j, "why_he", "No reason provided for recommended candidate.")>>,
            <<"block", "Why Not Other Candidates">> >>
         \o flatMap(arr(j, "why_not_others"), docWhyNot)

docFinal(reportData) ==
    LET fr == sub(reportData, "final_recommendation")
    IN  << <<"section", "Final Recommendation">>,
           <<"best", textOr(fr, "best_candidate", "None")>>,
           <<"decision", textOr(fr, "final_decision", "Not Evaluated")>> >>
        \o docJustification(sub(fr, "justification"))

\* fulfillment[crit] || "N/A"
docTableRow(c, crits) ==
    LET fulfillment == getFulfillmentForCandidate(c, crits)
    IN  <<"row", textOr(c, "candidate_name", "Unnamed Candidate")>>
        \o [i \in 1..Len(crits) |->
              IF fulfillment[crits[i]] # "" THEN fulfillment[crits[i]] ELSE "N/A"]

\* allCriteria and getFulfillmentForCandidate read the component's data.
docTable(reportData, d) ==
    << <<"section", "CV Comparison Table">>,
       <<"header", "Candidate Name">> \o allCriteria(d) >>
    \o [i \in 1..Len(reportData.candidates) |->
          docTableRow(reportData.candidates[i], allCriteria(d))]

\* reportData.candidates.flatMap and candidate.detailed_evaluation.map are
\* called on the field as received.
docThrows(reportData) ==
    \/ ~Has(reportData, "candidates")
    \/ \E i \in 1..Len(reportData.candidates) :
           ~Has(reportData.candidates[i], "detailed_evaluation")

\* A plausible slip: the ranking table is placed after the final recommendation.
docChildrenFinalFirst(reportData, d, sm) ==
    docTitle \o docToR(reportData) \o docCriteria(d) \o docCandidates(reportData)
    \o docFinal(reportData) \o docRanking(sm) \o docTable(reportData, d)

docChildren(reportData, d, sm) ==
    docTitle \o docToR(reportData) \o docCriteria(d) \o docCandidates(reportData)
    \o docRanking(sm) \o docFinal(reportData) \o docTable(reportData, d)

(***************************************************************************)
(* The responses the model draws from.                                     *)
(***************************************************************************)
Without(o, f) == [k \in DOMAIN o \ {f} |-> o[k]]

EvalA == [criterion |-> "Education", weight |-> 12, score |-> 8, justification |-> "Has MSc"]

ScoresA ==
    [general_qualifications |-> [education |-> 8, years_of_experience |-> 0, total |-> 8],
     adequacy_for_assignment |->
         [relevant_project_experience |-> 20, donor_experience |-> 10,
          regional_experience |-> 5, total |-> 35],
     specific_skills_competencies |->
         [technical_skills |-> 12, language_proficiency |-> 7, certifications |-> 3,
          total |-> 22],
     total_score |-> 75]

CandidateA ==
    [candidate_name |-> "A", recommendation |-> "Highly Suitable", scores |-> ScoresA,
     summary_justification |-> [key_strengths |-> "Degree", key_weaknesses |-> "Junior"],
     detailed_evaluation |-> <<EvalA>>]

CandidateB ==
    [candidate_name |-> "B", recommendation |-> "Suitable", scores |-> ScoresA,
     summary_justification |-> [key_strengths |-> "Field work", key_weaknesses |-> "No degree"],
     detailed_evaluation |->
         <<[criterion |-> "Education", weight |-> 12, score |-> 0,
            justification |-> "No evidence in CV."]>>]

MatrixA == [candidate_name |-> "A", total_score |-> 75, rank |-> 1]
MatrixB == [candidate_name |-> "B", total_score |-> 40, rank |-> 2]

StringJustification == [typeof |-> "string", value |-> "Candidate A is strongest."]

BaseResult ==
    [tor_text |-> "Engineer wanted",
     criteria |-> <<[criterion |-> "Education", weight |-> 12]>>,
     candidates |-> <<CandidateA>>,
     comparison_matrix |-> <<MatrixA>>,
     final_recommendation |->
         [best_candidate |-> "A", final_decision |-> "Hire",
          justification |-> StringJustification]]

TwoCandidates ==
    [BaseResult EXCEPT !.candidates = <<CandidateB, CandidateA>>,
                       !.comparison_matrix = <<MatrixB, MatrixA>>]

\* Results that vary criteria.
CriterionNames ==
    {"Education", "Years of Experience", "Relevant Project Experience",
     "Donor Experience (WB, ADB, etc.)", "Regional Experience", "Technical Skills",
     "Language Proficiency", "Certifications", "Leadership"}

CriterionEntries ==
    {[criterion |-> n, weight |-> w] : n \in CriterionNames, w \in {0, 12}}
    \cup {[criterion |-> n] : n \in CriterionNames}

CriteriaResults ==
    {[BaseResult EXCEPT !.criteria = cs] : cs \in SeqUpTo(CriterionEntries, MaxCriteria)}
    \cup {Without(BaseResult, "criteria")}

\* Results that vary one candidate's detailed_evaluation.
EvalEntries ==
    LET names == {"Education", "Leadership"}
        scored == {[criterion |-> n, weight |-> 12, score |-> sc] :
                       n \in names, sc \in {-1, 0, 8}}
                  \cup {[criterion |-> n, weight |-> 12] : n \in names}
    IN  scored
        \cup {e @@ [justification |-> j] :
                  e \in scored, j \in {"", "No evidence in CV.", "Has MSc"}}

CriteriaLists ==
    {<<[criterion |-> "Education", weight |-> 12],
       [criterion |-> "Leadership", weight |-> 5],
       [criterion |-> "Technical Skills", weight |-> 15]>>,
     <<[criterion |-> "Leadership", weight |-> 5],
       [criterion |-> "Technical Skills", weight |-> 15],
       [criterion |-> "Leadership", weight |-> 7]>>}

FulfillmentResults ==
    {[BaseResult EXCEPT !.criteria = cs,
                        !.candidates = <<[CandidateA EXCEPT !.detailed_evaluation = des]>>] :
         cs \in CriteriaLists, des \in SeqUpTo(EvalEntries, MaxEvals)}
    \cup {[BaseResult EXCEPT !.criteria = cs,
                             !.candidates = <<Without(CandidateA, "detailed_evaluation")>>] :
              cs \in CriteriaLists}

\* Results that vary comparison_matrix.
MatrixEntries ==
    {[candidate_name |-> n, total_score |-> 75, rank |-> r] :
         n \in {"A", "B"}, r \in 1..MaxRank}

MatrixResults ==
    {[BaseResult EXCEPT !.comparison_matrix = m] : m \in SeqUpTo(MatrixEntries, MaxMatrix)}

\* Results that vary the order of candidates against the ranks of the matrix.
OrderResults ==
    {[BaseResult EXCEPT !.candidates = cs, !.comparison_matrix = m] :
         cs \in {<<CandidateA, CandidateB>>, <<CandidateB, CandidateA>>},
         m \in SeqUpTo(MatrixEntries, MaxMatrix)}

\* Results that differ in criteria, in candidates or in the matrix.
ExportResults ==
    {BaseResult, TwoCandidates,
     [TwoCandidates EXCEPT !.comparison_matrix = <<MatrixA, MatrixB>>]}
    \cup {[BaseResult EXCEPT !.criteria = <<[criterion |-> n, weight |-> 12]>>] :
              n \in CriterionNames}

\* Results that vary the optional scores: absent, 0 or another value.
WithOptional(o, f, values) == {Without(o, f)} \cup {[o EXCEPT ![f] = v] : v \in values}

ScoreRecords ==
    {[t EXCEPT !.general_qualifications = g] :
         t \in WithOptional(ScoresA, "total_score", {0, 7}),
         g \in WithOptional(ScoresA.general_qualifications, "education", {0, 7})}
    \cup {Without(ScoresA, "specific_skills_competencies")}

ScoreCandidates ==
    {[CandidateA EXCEPT !.scores = sc, !.detailed_evaluation = <<e>>] :
         sc \in ScoreRecords, e \in WithOptional(EvalA, "score", {0, 8})}
    \cup {Without(CandidateA, "scores")}

ScoreResults ==
    {[BaseResult EXCEPT !.candidates = <<c>>, !.comparison_matrix = <<m>>] :
         c \in ScoreCandidates, m \in WithOptional(MatrixA, "total_score", {0, 75})}

\* Results that vary final_recommendation.justification.
WhyNotEntries ==
    {[candidate_name |-> n, reason |-> r] : n \in {"B", "C"}, r \in {"Weaker", ""}}
    \cup {[candidate_name |-> "B"], [reason |-> "Weaker"]}

StructuredJustifications ==
    LET bare == {[typeof |-> "object"],
                 [typeof |-> "object", detailed_explanation |-> "A leads"],
                 [typeof |-> "object", why_he |-> "Best fit"],
                 [typeof |-> "object", detailed_explanation |-> "A leads", why_he |-> "Best fit"]}
    IN  bare \cup {j @@ [why_not_others |-> w] :
                      j \in bare, w \in SeqUpTo(WhyNotEntries, MaxWhyNot)}

Justifications ==
    StructuredJustifications
    \cup {StringJustification, [typeof |-> "string", value |-> ""], [typeof |-> "number"]}

RecommendationResults ==
    {[BaseResult EXCEPT !.final_recommendation.justification = j] : j \in Justifications}
    \cup {[BaseResult EXCEPT !.final_recommendation = Without(@, "justification")],
          Without(BaseResult, "final_recommendation")}

\* Results with one optional field absent.
CandidatesMissingAField ==
    {Without(CandidateA, f) : f \in DOMAIN CandidateA}
    \cup {[CandidateA EXCEPT !.scores = Without(@, f)] : f \in DOMAIN ScoresA}
    \cup {[CandidateA EXCEPT !.scores.general_qualifications = Without(@, "education")],
          [CandidateA EXCEPT !.summary_justification = Without(@, "key_strengths")],
          [CandidateA EXCEPT !.summary_justification = Without(@, "key_weaknesses")]}
    \cup {[CandidateA EXCEPT !.detailed_evaluation = <<Without(EvalA, f)>>] :
              f \in DOMAIN EvalA}

MissingFieldResults ==
    {Without(BaseResult, f) : f \in DOMAIN BaseResult}
    \cup {[BaseResult EXCEPT !.candidates = <<c>>] : c \in CandidatesMissingAField}
    \cup {[BaseResult EXCEPT !.candidates = <<c>>, !.criteria = <<>>] :
              c \in CandidatesMissingAField}
    \cup {[BaseResult EXCEPT !.comparison_matrix = <<Without(MatrixA, f), MatrixB>>] :
              f \in DOMAIN MatrixA}
    \cup {[BaseResult EXCEPT !.final_recommendation = Without(@, f)] :
              f \in DOMAIN BaseResult.final_recommendation}
    \cup {[BaseResult EXCEPT !.final_recommendation.justification =
               [typeof |-> "object", why_not_others |-> <<[candidate_name |-> "B"]>>]]}

StructuredResults ==
    {[TwoCandidates EXCEPT !.final_recommendation.justification =
          [typeof |-> "object", detailed_explanation |-> "A leads", why_he |-> "Best fit",
           why_not_others |-> w]] :
         w \in {<<>>, <<[candidate_name |-> "B", reason |-> "Weaker"]>>}}

Responses == {BaseResult, TwoCandidates} \cup StructuredResults \cup MissingFieldResults

(***************************************************************************)
(* The component.                                                          *)
(***************************************************************************)
FileNames == {"cv.pdf"}
TorTexts == {"", "Engineer wanted"}
ErrorBodies == {"Quota exceeded", ""}

Pending == [status |-> "pending"]
Crashed == [status |-> "TypeError"]
NoDoc == [status |-> "none"]

Init ==
    /\ tor = ""
    /\ files = <<>>
    /\ loading = FALSE
    /\ error = Null
    /\ data = Null
    /\ sortedMatrix = <<>>
    /\ fulfillments = <<>>
    /\ view = [status |-> "ok", nodes |-> <<>>]
    /\ doc = NoDoc
    /\ inFlight = 0

\* The handlers of a render exist once it is committed; a render that threw
\* leaves no page.
Interactive == view.status = "ok"

\* The component body and the JSX it returns, after a state update.
Render ==
    /\ view = Pending
    /\ IF renderThrows(data)
       THEN /\ view' = Crashed
            /\ UNCHANGED <<data, sortedMatrix, fulfillments>>
       ELSE /\ data' = dataAfterSort(data)
            /\ sortedMatrix' = computeSortedMatrix(data)
            /\ fulfillments' = IF data = Null THEN <<>>
                               ELSE [i \in 1..Len(arr(data, "candidates")) |->
                                      getFulfillmentForCandidate(data.candidates[i],
                                                                 allCriteria(data))]
            /\ view' = [status |-> "ok",
                        nodes |-> IF data = Null THEN <<>>
                                  ELSE viewNodes(data, computeSortedMatrix(data))]
    /\ UNCHANGED <<tor, files, loading, error, doc, inFlight>>

\* onChange of the textarea (line 519).
setTor(t) ==
    /\ Interactive
    /\ t # tor
    /\ tor' = t
    /\ view' = Pending
    /\ UNCHANGED <<files, loading, error, data, sortedMatrix, fulfillments, doc, inFlight>>

\* A plausible slip: slice(-10), which keeps the last ten files.
handleFileChangeKeepsLast(newFiles) ==
    /\ Interactive
    /\ files' = SubSeq(files \o newFiles,
                       IF Len(files \o newFiles) < 10 THEN 1 ELSE Len(files \o newFiles) - 9,
                       Len(files \o newFiles))
    /\ view' = Pending
    /\ UNCHANGED <<tor, loading, error, data, sortedMatrix, fulfillments, doc, inFlight>>

\* handleFileChange (lines 149-151), from the file input or from handleDrop.
handleFileChange(newFiles) ==
    /\ Interactive
    /\ files' = SubSeq(files \o newFiles, 1,
                       IF Len(files \o newFiles) < 10 THEN Len(files \o newFiles) ELSE 10)
    /\ view' = Pending
    /\ UNCHANGED <<tor, loading, error, data, sortedMatrix, fulfillments, doc, inFlight>>

\* removeFile (lines 170-172), from the button of the file at index.
removeFile(index) ==
    /\ Interactive
    /\ index \in 1..Len(files)
    /\ files' = [i \in 1..(Len(files) - 1) |-> IF i < index THEN files[i] ELSE files[i + 1]]
    /\ view' = Pending
    /\ UNCHANGED <<tor, loading, error, data, sortedMatrix, fulfillments, doc, inFlight>>

\* A plausible slip: the result on display is not cleared by a new submission.
handleSubmitKeepsData ==
    /\ Interactive
    /\ ~loading
    /\ inFlight < MaxInFlight
    /\ data' = data
    /\ IF tor = ""
       THEN error' = [message |-> "Please enter the Terms of Reference (ToR)."]
            /\ loading' = loading /\ inFlight' = inFlight
       ELSE IF Len(files) = 0
       THEN error' = [message |-> "Please upload at least one CV file."]
            /\ loading' = loading /\ inFlight' = inFlight
       ELSE IF Len(files) > 10
       THEN error' = [message |-> "Maximum 10 CVs allowed."]
            /\ loading' = loading /\ inFlight' = inFlight
       ELSE error' = Null /\ loading' = TRUE /\ inFlight' = inFlight + 1
    /\ view' = Pending
    /\ doc' = NoDoc
    /\ UNCHANGED <<tor, files, sortedMatrix, fulfillments>>

\* A plausible slip: the files are validated before the ToR.
handleSubmitFilesFirst ==
    /\ Interactive
    /\ ~loading
    /\ inFlight < MaxInFlight
    /\ data' = Null
    /\ IF Len(files) = 0
       THEN error' = [message |-> "Please upload at least one CV file."]
            /\ loading' = loading /\ inFlight' = inFlight
       ELSE IF tor = ""
       THEN error' = [message |-> "Please enter the Terms of Reference (ToR)."]
            /\ loading' = loading /\ inFlight' = inFlight
       ELSE IF Len(files) > 10
       THEN error' = [message |-> "Maximum 10 CVs allowed."]
            /\ loading' = loading /\ inFlight' = inFlight
       ELSE error' = Null /\ loading' = TRUE /\ inFlight' = inFlight + 1
    /\ view' = Pending
    /\ doc' = NoDoc
    /\ UNCHANGED <<tor, files, sortedMatrix, fulfillments>>

\* A plausible slip: the error on display is not cleared by a submission that
\* passes validation.
handleSubmitKeepsError ==
    /\ Interactive
    /\ ~loading
    /\ inFlight < MaxInFlight
    /\ data' = Null
    /\ IF tor = ""
       THEN error' = [message |-> "Please enter the Terms of Reference (ToR)."]
            /\ loading' = loading /\ inFlight' = inFlight
       ELSE IF Len(files) = 0
       THEN error' = [message |-> "Please upload at least one CV file."]
            /\ loading' = loading /\ inFlight' = inFlight
       ELSE IF Len(files) > 10
       THEN error' = [message |-> "Maximum 10 CVs allowed."]
            /\ loading' = loading /\ inFlight' = inFlight
       ELSE error' = error /\ loading' = TRUE /\ inFlight' = inFlight + 1
    /\ view' = Pending
    /\ doc' = NoDoc
    /\ UNCHANGED <<tor, files, sortedMatrix, fulfillments>>

\* A plausible slip: the button is not disabled while loading.
handleSubmitNotDisabled ==
    /\ Interactive
    /\ inFlight < MaxInFlight
    /\ data' = Null
    /\ IF tor = ""
       THEN error' = [message |-> "Please enter the Terms of Reference (ToR)."]
            /\ loading' = loading /\ inFlight' = inFlight
       ELSE IF Len(files) = 0
       THEN error' = [message |-> "Please upload at least one CV file."]
            /\ loading' = loading /\ inFlight' = inFlight
       ELSE IF Len(files) > 10
       THEN error' = [message |-> "Maximum 10 CVs allowed."]
            /\ loading' = loading /\ inFlight' = inFlight
       ELSE error' = Null /\ loading' = TRUE /\ inFlight' = inFlight + 1
    /\ view' = Pending
    /\ doc' = NoDoc
    /\ UNCHANGED <<tor, files, sortedMatrix, fulfillments>>

\* handleSubmit up to the await of fetch (lines 108-136); the button is
\* disabled while loading (line 626). A submission that passes validation
\* puts one request in flight.
handleSubmit ==
    /\ Interactive
    /\ ~loading
    /\ inFlight < MaxInFlight
    /\ data' = Null
    /\ IF tor = ""
       THEN error' = [message |-> "Please enter the Terms of Reference (ToR)."]
            /\ loading' = loading /\ inFlight' = inFlight
       ELSE IF Len(files) = 0
       THEN error' = [message |-> "Please upload at least one CV file."]
            /\ loading' = loading /\ inFlight' = inFlight
       ELSE IF Len(files) > 10
       THEN error' = [message |-> "Maximum 10 CVs allowed."]
            /\ loading' = loading /\ inFlight' = inFlight
       ELSE error' = Null /\ loading' = TRUE /\ inFlight' = inFlight + 1
    /\ view' = Pending
    /\ doc' = NoDoc
    /\ UNCHANGED <<tor, files, sortedMatrix, fulfillments>>

\* handleSubmit after the await, the response being ok (lines 137-146).
fetchOk(json) ==
    /\ inFlight > 0
    /\ inFlight' = inFlight - 1
    /\ data' = json
    /\ loading' = FALSE
    /\ view' = Pending
    /\ UNCHANGED <<tor, files, error, sortedMatrix, fulfillments, doc>>

\* handleSubmit after the await, the status not being ok: json.error or the
\* default message (lines 138-146).
fetchNotOk(body) ==
    /\ inFlight > 0
    /\ inFlight' = inFlight - 1
    /\ error' = [message |-> IF body # "" THEN body ELSE "Failed to process CVs."]
    /\ loading' = FALSE
    /\ view' = Pending
    /\ UNCHANGED <<tor, files, data, sortedMatrix, fulfillments, doc>>

\* fetch or res.json() rejects: the message of the error thrown (lines 142-146).
fetchRejected(message) ==
    /\ inFlight > 0
    /\ inFlight' = inFlight - 1
    /\ error' = [message |-> message]
    /\ loading' = FALSE
    /\ view' = Pending
    /\ UNCHANGED <<tor, files, data, sortedMatrix, fulfillments, doc>>

\* onClick of the download button (line 657): generateDocxReport(data), with
\* the data, sortedMatrix and allCriteria of the render that made the button.
generateDocxReport ==
    /\ Interactive
    /\ data # Null
    /\ doc' = IF docThrows(data)
              THEN [status |-> "TypeError"]
              ELSE [status |-> "saved", nodes |-> docChildren(data, data, sortedMatrix)]
    /\ UNCHANGED <<tor, files, loading, error, data, sortedMatrix, fulfillments, view,
                   inFlight>>

\* generateDocxReport as a function of its parameter (line 229): called with any
\* result while the component holds data. mapCriteria(), sortedMatrix,
\* allCriteria and getFulfillmentForCandidate are those of the component
\* (lines 253, 367, 447, 451). The page's own button passes data (line 657).
generateDocxReportOf(reportData) ==
    /\ Interactive
    /\ data # Null
    /\ doc' = IF docThrows(reportData)
              THEN [status |-> "TypeError", reportData |-> reportData]
              ELSE [status |-> "saved", reportData |-> reportData,
                    nodes |-> docChildren(reportData, data, sortedMatrix)]
    /\ UNCHANGED <<tor, files, loading, error, data, sortedMatrix, fulfillments, view,
                   inFlight>>

Next ==
    \/ Render
    \/ \E t \in TorTexts : setTor(t)
    \/ \E f \in FileNames : handleFileChange(<<f>>)
    \/ \E i \in 1..10 : removeFile(i)
    \/ handleSubmit
    \/ \E json \in Responses : fetchOk(json)
    \/ \E body \in ErrorBodies : fetchNotOk(body)
    \/ \E m \in {"Failed to fetch", "Unexpected token < in JSON"} : fetchRejected(m)
    \/ generateDocxReport

Spec == Init /\ [][Next]_vars

(***************************************************************************)
(* The derivations on their own: the state is the one a response has just  *)
(* been stored in, and the render and the export act on it.                *)
(***************************************************************************)
Received(results) ==
    /\ tor = "Engineer wanted"
    /\ files = <<"cv.pdf">>
    /\ loading = FALSE
    /\ error = Null
    /\ data \in results
    /\ sortedMatrix = <<>>
    /\ fulfillments = <<>>
    /\ view = Pending
    /\ doc = NoDoc
    /\ inFlight = 0

NextReport == Render \/ generateDocxReport

InitCriteria == Received(CriteriaResults)
SpecCriteria == InitCriteria /\ [][NextReport]_vars

InitFulfillment == Received(FulfillmentResults)
SpecFulfillment == InitFulfillment /\ [][NextReport]_vars

InitRanking == Received(MatrixResults)
SpecRanking == InitRanking /\ [][NextReport]_vars

InitOrder == Received(OrderResults)
SpecOrder == InitOrder /\ [][NextReport]_vars

\* The export applied to every result, in a component holding any result.
InitExport == Received(ExportResults)
NextExport == Render \/ \E reportData \in ExportResults : generateDocxReportOf(reportData)
SpecExport == InitExport /\ [][NextExport]_vars

InitScores == Received(ScoreResults)
SpecScores == InitScores /\ [][NextReport]_vars

\* The file list on its own: selections and drops of several files of two
\* names, removals and submissions whose request fails.
DroppedNames == {"a.pdf", "b.pdf"}
Drops == SeqUpTo(DroppedNames, MaxDrop)

InitFiles ==
    /\ tor = "Engineer wanted"
    /\ files = <<>>
    /\ loading = FALSE
    /\ error = Null
    /\ data = Null
    /\ sortedMatrix = <<>>
    /\ fulfillments = <<>>
    /\ view = [status |-> "ok", nodes |-> <<>>]
    /\ doc = NoDoc
    /\ inFlight = 0

NextFiles ==
    \/ Render
    \/ \E newFiles \in Drops : handleFileChange(newFiles)
    \/ \E i \in 1..10 : removeFile(i)
    \/ handleSubmit
    \/ fetchRejected("Failed to fetch")

SpecFiles == InitFiles /\ [][NextFiles]_vars

InitRecommendation == Received(RecommendationResults)
SpecRecommendation == InitRecommendation /\ [][NextReport]_vars

(***************************************************************************)
(* Properties.                                                             *)
(***************************************************************************)
Range(s) == {s[i] : i \in 1..Len(s)}

\* The results view of the received result is on display.
Rendered == data # Null /\ view.status = "ok"

\* The report of the result on display has been generated and saved.
Exported == data # Null /\ doc.status = "saved"

\* The entries of a candidate's detailed_evaluation named crit, by position.
entriesFor(candidate, crit) ==
    {i \in 1..Len(candidate.detailed_evaluation) :
         /\ Has(candidate.detailed_evaluation[i], "criterion")
         /\ candidate.detailed_evaluation[i].criterion = crit}

\* The entry for crit: the first one when several carry the name.
entryFor(candidate, crit) ==
    candidate.detailed_evaluation[
        CHOOSE i \in entriesFor(candidate, crit) :
            \A j \in entriesFor(candidate, crit) : i <= j]

Surfaces(e) ==
    /\ Has(e, "score") /\ e.score > 0
    /\ Has(e, "justification") /\ e.justification # ""
    /\ e.justification # "No evidence in CV."

\* C1: for every candidate and every criterion name c of criteria, the
\* fulfillment value for c is the justification of the candidate's entry for c
\* exactly when that entry exists, its score is greater than 0 and its
\* justification is a non-empty string other than "No evidence in CV."; in
\* every other case it is "No work here".
C1_FulfillmentValue ==
    Rendered =>
        \A k \in 1..Len(fulfillments) :
            \A c \in Range(allCriteria(data)) :
                LET cand == data.candidates[k]
                    present == entriesFor(cand, c) # {}
                IN  /\ (present /\ Surfaces(entryFor(cand, c)))
                           => fulfillments[k][c] = entryFor(cand, c).justification
                    /\ ~(present /\ Surfaces(entryFor(cand, c)))
                           => fulfillments[k][c] = "No work here"

\* A justification is surfaced for one criterion while, for another, an entry
\* with score 0 and a usable justification gives "No work here".
C1_Witness ==
    /\ Rendered
    /\ Len(fulfillments) = 1
    /\ \E c \in Range(allCriteria(data)) : fulfillments[1][c] = "Has MSc"
    /\ \E c \in Range(allCriteria(data)) :
           /\ entriesFor(data.candidates[1], c) # {}
           /\ Has(entryFor(data.candidates[1], c), "score")
           /\ entryFor(data.candidates[1], c).score = 0
           /\ Has(entryFor(data.candidates[1], c), "justification")
           /\ entryFor(data.candidates[1], c).justification = "Has MSc"
           /\ fulfillments[1][c] = "No work here"

\* C2: the map getFulfillmentForCandidate returns has a key for each criterion
\* name of criteria and no other key, and every value is a justification of an
\* entry with that name or "No work here", never the empty string.
C2_FulfillmentKeys ==
    Rendered =>
        \A k \in 1..Len(fulfillments) :
            /\ DOMAIN fulfillments[k] = Range(allCriteria(data))
            /\ \A c \in DOMAIN fulfillments[k] :
                   /\ fulfillments[k][c] # ""
                   /\ \/ fulfillments[k][c] = "No work here"
                      \/ \E i \in entriesFor(data.candidates[k], c) :
                             /\ Has(data.candidates[k].detailed_evaluation[i], "justification")
                             /\ fulfillments[k][c] =
                                    data.candidates[k].detailed_evaluation[i].justification

\* A detailed_evaluation names a criterion that criteria does not list, and
\* criteria lists a name twice.
C2_Witness ==
    /\ Rendered
    /\ Len(fulfillments) = 1
    /\ Cardinality(DOMAIN fulfillments[1]) < Len(data.criteria)
    /\ \E i \in 1..Len(data.candidates[1].detailed_evaluation) :
           data.candidates[1].detailed_evaluation[i].criterion
               \notin Range(allCriteria(data))
    /\ \E c \in DOMAIN fulfillments[1] : fulfillments[1][c] = "Has MSc"

\* The roles of the nodes of the section called name, in order.
rolesIn(nodes, name) ==
    LET start == CHOOSE i \in 1..Len(nodes) : nodes[i] = <<"section", name>>
        later == {i \in (start + 1)..Len(nodes) : nodes[i][1] = "section"}
        stop == IF later = {} THEN Len(nodes) + 1
                ELSE CHOOSE i \in later : \A j \in later : i <= j
    IN  [i \in 1..(stop - start - 1) |-> nodes[start + i][1]]

\* The eight sub-criteria of the hierarchy, with the documented default weights.
SubCriteria ==
    {"Education", "Years of Experience", "Relevant Project Experience",
     "Donor Experience (WB, ADB, etc.)", "Regional Experience", "Technical Skills",
     "Language Proficiency", "Certifications"}

DocumentedDefault(n) ==
    CASE n = "Education" -> 10
      [] n = "Years of Experience" -> 10
      [] n = "Relevant Project Experience" -> 25
      [] n = "Donor Experience (WB, ADB, etc.)" -> 15
      [] n = "Regional Experience" -> 10
      [] n = "Technical Skills" -> 15
      [] n = "Language Proficiency" -> 10
      [] n = "Certifications" -> 5

\* The weight mapCriteria emits for the sub-criterion n.
emittedWeight(d, n) ==
    LET items == flatMap(mapCriteria(d), LAMBDA category : category.subitems)
    IN  items[CHOOSE i \in 1..Len(items) : items[i].name = n].weight

\* C3: for each of the eight sub-criterion names, the weight mapCriteria emits
\* is the weight of a criteria entry with that name whenever such an entry
\* exists, whatever that weight is, and is the documented default only when no
\* entry has the name.
C3_WeightOfEntry ==
    Rendered =>
        \A n \in SubCriteria :
            LET named == {i \in 1..Len(data.criteria) : data.criteria[i].criterion = n}
            IN  /\ named = {} => emittedWeight(data, n) = DocumentedDefault(n)
                /\ (named # {} /\ \A i \in named : Has(data.criteria[i], "weight"))
                       => \E i \in named : emittedWeight(data, n) = data.criteria[i].weight

CategoryNames ==
    <<"General Qualifications", "Adequacy for the Assignment",
      "Specific Skills & Competencies">>

HierarchyShape(h) ==
    /\ Len(h) = 3
    /\ [i \in 1..3 |-> h[i].category] = CategoryNames
    /\ [i \in 1..3 |-> Len(h[i].subitems)] = <<2, 3, 3>>

Reorderings(n) == {p \in [1..n -> 1..n] : \A i, j \in 1..n : p[i] = p[j] => i = j}

\* out holds the entries of in, in ascending order of rank, entries of equal
\* rank in their order in in.
StableAscending(in, out) ==
    /\ Len(out) = Len(in)
    /\ \E p \in Reorderings(Len(in)) :
           /\ \A i \in 1..Len(in) : out[i] = in[p[i]]
           /\ \A i, j \in 1..Len(in) :
                  i < j => \/ out[i].rank < out[j].rank
                           \/ out[i].rank = out[j].rank /\ p[i] < p[j]

C5_SortedStable == Rendered => StableAscending(data.comparison_matrix, sortedMatrix)

C5_InputKept == data # Null => data' = data

\* C5: sortedMatrix is a permutation of comparison_matrix in ascending order of
\* rank in which entries of equal rank keep their relative input order, and
\* computing it leaves comparison_matrix as it was received.
C5_SortedMatrix == [](C5_SortedStable) /\ [][C5_InputKept]_vars

\* A matrix that is out of order and has a tie has been sorted.
C5_Witness ==
    /\ Rendered
    /\ sortedMatrix # data.comparison_matrix
    /\ \E i, j \in 1..Len(sortedMatrix) :
           /\ i < j
           /\ sortedMatrix[i].rank = sortedMatrix[j].rank
           /\ sortedMatrix[i].candidate_name # sortedMatrix[j].candidate_name

Ascending(m) == \A i, j \in 1..Len(m) : i < j => m[i].rank <= m[j].rank

\* C6: the ranking sort is idempotent: an already sorted comparison matrix comes
\* back as the same sequence, and sorting the sorted matrix again changes
\* nothing, ties included.
C6_SortIdempotent ==
    Rendered =>
        /\ Ascending(data.comparison_matrix) => sortedMatrix = data.comparison_matrix
        /\ sort(sortedMatrix) = sortedMatrix

\* An already sorted matrix with a tie between two candidates has been sorted.
C6_Witness ==
    /\ Rendered
    /\ Ascending(data.comparison_matrix)
    /\ \E i \in 1..(Len(sortedMatrix) - 1) :
           /\ sortedMatrix[i].rank = sortedMatrix[i + 1].rank
           /\ sortedMatrix[i].candidate_name # sortedMatrix[i + 1].candidate_name

\* C7: whatever optional field of the received result is absent, neither
\* rendering the page nor generating the export throws.
C7_NeverThrows == view.status # "TypeError" /\ doc.status # "TypeError"

\* The content nodes of a rendering: everything but the document title and the
\* headings that only group other nodes.
Content(nodes) == {n \in Range(nodes) : n[1] \notin {"title", "heading"}}

\* C8: the interactive view and the DOCX export contain the same content
\* nodes: every node of one has a counterpart in the other.
C8_SameContent == (Rendered /\ Exported) => Content(view.nodes) = Content(doc.nodes)

SectionOrder ==
    <<"Terms of Reference", "Evaluation Criteria", "Candidates", "Comparison Ranking",
      "Final Recommendation", "CV Comparison Table">>

\* The names of the top-level sections of a rendering, in the order visited.
sectionsOf(nodes) ==
    LET heads == SelectSeq(nodes, LAMBDA n : n[1] = "section")
    IN  [i \in 1..Len(heads) |-> heads[i][2]]

FixedOrder(nodes) ==
    /\ sectionsOf(nodes) = SectionOrder
    /\ LET roles == rolesIn(nodes, "Final Recommendation")
       IN  /\ Len(roles) >= 4
           /\ SubSeq(roles, 1, 3) = <<"best", "decision", "block">>
           /\ \A i \in 3..Len(roles) :
                  roles[i] \in {"block", "text", "whynot-candidate", "whynot-reason", "empty"}

\* C9: both renderings visit the top-level sections in the order Terms of
\* Reference, Evaluation Criteria, Candidates, Comparison Ranking, Final
\* Recommendation, CV Comparison Table, and inside Final Recommendation both
\* emit best candidate, then decision, then the justification block(s).
C9_SectionOrder ==
    /\ Rendered => FixedOrder(view.nodes)
    /\ Exported => FixedOrder(doc.nodes)

\* A result with two candidates is on display and its report has been saved.
C9_Witness == Rendered /\ Exported /\ Len(data.candidates) = 2

\* The candidate/reason nodes of a rendering, in order.
pairNodes(nodes) ==
    SelectSeq(nodes, LAMBDA n : n[1] \in {"whynot-candidate", "whynot-reason"})

EmptyStateLines(nodes) ==
    Len(SelectSeq(nodes, LAMBDA n : n = <<"empty", "No other candidates evaluated.">>))

WhyNotShown(nodes, w) ==
    IF w = <<>>
    THEN EmptyStateLines(nodes) = 1 /\ pairNodes(nodes) = <<>>
    ELSE /\ EmptyStateLines(nodes) = 0
         /\ Len(pairNodes(nodes)) = 2 * Len(w)
         /\ \A i \in 1..Len(w) :
                /\ pairNodes(nodes)[2 * i - 1] =
                       <<"whynot-candidate", textOr(w[i], "candidate_name", "Unnamed Candidate")>>
                /\ pairNodes(nodes)[2 * i] =
                       <<"whynot-reason", textOr(w[i], "reason", "No reason provided.")>>

\* C10: with the structured justification, each rendering shows the line "No
\* other candidates evaluated." and no candidate/reason pair when
\* why_not_others is absent or empty, and exactly the n pairs of a
\* why_not_others of n entries, in list order, without that line.
C10_WhyNotOthers ==
    LET j == sub(sub(data, "final_recommendation"), "justification")
    IN  (data # Null /\ Has(j, "typeof") /\ j.typeof = "object") =>
            /\ Rendered => WhyNotShown(view.nodes, arr(j, "why_not_others"))
            /\ Exported => WhyNotShown(doc.nodes, arr(j, "why_not_others"))

\* The names of the justification blocks of a rendering, in order.
blocksOf(nodes) ==
    LET blocks == SelectSeq(nodes, LAMBDA n : n[1] = "block")
    IN  [i \in 1..Len(blocks) |-> blocks[i][2]]

StructuredBlocks == {"Detailed Explanation", "Why Recommended Candidate", "Why Not Other Candidates"}

\* A rendering never holds the block of the string branch together with a
\* block of the structured branch.
BranchesExclusive(nodes) ==
    ~("Justification" \in Range(blocksOf(nodes))
      /\ Range(blocksOf(nodes)) \cap StructuredBlocks # {})

\* The rendering took the string branch and its block carries text: the one
\* block is "Justification", the node after it is the text, and nothing of the
\* structured branch is present.
StringBranch(nodes, text) ==
    /\ blocksOf(nodes) = <<"Justification">>
    /\ \E i \in 1..(Len(nodes) - 1) :
           nodes[i] = <<"block", "Justification">> /\ nodes[i + 1] = <<"text", text>>
    /\ pairNodes(nodes) = <<>>
    /\ EmptyStateLines(nodes) = 0

\* final_recommendation.justification of the result on display.
justificationOf(d) == sub(sub(d, "final_recommendation"), "justification")

\* The justification of the result is of the string variant.
StringVariant(d) ==
    d # Null /\ Has(justificationOf(d), "typeof") /\ justificationOf(d).typeof = "string"

\* C11 as stated: when final_recommendation.justification is a string, each
\* rendering emits exactly one "Justification" block carrying that very text
\* and none of the Detailed Explanation, Why Recommended Candidate and Why Not
\* Other Candidates blocks; no rendering of any input mixes the two branches.
C11_StringBlockCarriesText ==
    /\ Rendered => BranchesExclusive(view.nodes)
    /\ Exported => BranchesExclusive(doc.nodes)
    /\ StringVariant(data) =>
           /\ Rendered => StringBranch(view.nodes, justificationOf(data).value)
           /\ Exported => StringBranch(doc.nodes, justificationOf(data).value)

\* The text of the "Justification" block for a string justification.
stringBlockText(j) == IF j.value # "" THEN j.value ELSE "No justification provided."

\* C11 amended: when final_recommendation.justification is a string, each
\* rendering emits exactly one "Justification" block and none of the blocks
\* of the structured branch; the block carries the string when it is not
\* empty and "No justification provided." when it is empty; no rendering of
\* any input mixes the two branches.
C11_StringBlockOrFallback ==
    /\ Rendered => BranchesExclusive(view.nodes)
    /\ Exported => BranchesExclusive(doc.nodes)
    /\ StringVariant(data) =>
           /\ Rendered => StringBranch(view.nodes, stringBlockText(justificationOf(data)))
           /\ Exported => StringBranch(doc.nodes, stringBlockText(justificationOf(data)))

\* A result whose justification is a non-empty string is on display and its
\* report has been saved.
C11_Witness ==
    /\ Rendered /\ Exported
    /\ StringVariant(data)
    /\ justificationOf(data).value = "Candidate A is strongest."

\* The nodes of the section called name, in order.
nodesIn(nodes, name) ==
    LET start == CHOOSE i \in 1..Len(nodes) : nodes[i] = <<"section", name>>
        later == {i \in (start + 1)..Len(nodes) : nodes[i][1] = "section"}
        stop == IF later = {} THEN Len(nodes) + 1
                ELSE CHOOSE i \in later : \A j \in later : i <= j
    IN  [i \in 1..(stop - start - 1) |-> nodes[start + i]]

\* The second field of the nodes of the given role in a section, in order:
\* the candidate names of a section's cards or rows.
namesIn(nodes, name, role) ==
    LET found == SelectSeq(nodesIn(nodes, name), LAMBDA n : n[1] = role)
    IN  [i \in 1..Len(found) |-> found[i][2]]

\* The last field of the rows of the Comparison Ranking table: the rank shown.
ranksShown(nodes) ==
    LET rows == SelectSeq(nodesIn(nodes, "Comparison Ranking"), LAMBDA n : n[1] = "row")
    IN  [i \in 1..Len(rows) |-> rows[i][Len(rows[i])]]

RankAscending(texts) ==
    \A i, j \in 1..Len(texts) :
        i < j => \A a, b \in 1..MaxRank :
                     (texts[i] = ToString(a) /\ texts[j] = ToString(b)) => a <= b

\* The names of the candidates of a result, as received.
receivedNames(d) ==
    [i \in 1..Len(arr(d, "candidates")) |->
        textOr(d.candidates[i], "candidate_name", "Unnamed Candidate")]

CandidatesAsReceived(nodes, d) ==
    /\ namesIn(nodes, "Candidates", "candidate") = receivedNames(d)
    /\ namesIn(nodes, "CV Comparison Table", "row") = receivedNames(d)
    /\ RankAscending(ranksShown(nodes))

\* C12: the Candidates section and the rows of the CV Comparison Table, in the
\* interactive view and in the export, list the candidates in the order of
\* candidates as received whatever the ranks of comparison_matrix are; the
\* rows of the Comparison Ranking table are in ascending order of rank.
C12_CandidatesAsReceived ==
    /\ Rendered => CandidatesAsReceived(view.nodes, data)
    /\ Exported => CandidatesAsReceived(doc.nodes, data)

\* Two candidates received in the opposite of their rank order are on display
\* and in the saved report.
C12_Witness ==
    /\ Rendered /\ Exported
    /\ receivedNames(data) = <<"B", "A">>
    /\ Len(sortedMatrix) = 2
    /\ sortedMatrix[1] = [candidate_name |-> "A", total_score |-> 75, rank |-> 1]
    /\ sortedMatrix[2] = [candidate_name |-> "B", total_score |-> 75, rank |-> 2]
    /\ data.comparison_matrix # sortedMatrix

\* The header and the rows of the CV Comparison Table of a rendering.
tableHeader(nodes) ==
    SelectSeq(nodesIn(nodes, "CV Comparison Table"), LAMBDA n : n[1] = "header")

tableRows(nodes) ==
    SelectSeq(nodesIn(nodes, "CV Comparison Table"), LAMBDA n : n[1] = "row")

\* One name column, then one column per entry of criteria, in order, headed by
\* the entry's name; every row has a cell under each header.
TableColumns(nodes, criteria) ==
    /\ tableHeader(nodes) =
           << <<"header", "Candidate Name">>
              \o [i \in 1..Len(criteria) |-> criteria[i].criterion] >>
    /\ \A r \in Range(tableRows(nodes)) : Len(r) = 2 + Len(criteria)

\* C13: in both renderings the CV Comparison Table has one name column followed
\* by exactly criteria.length criterion columns, in the order of criteria and
\* headed by the criterion names as given, names outside the fixed eight
\* included; with empty criteria the fulfillment map of every candidate is
\* empty and every row has only the name column.
C13_TableColumns ==
    /\ Rendered => /\ TableColumns(view.nodes, data.criteria)
                   /\ data.criteria = <<>> =>
                          \A i \in DOMAIN fulfillments : DOMAIN fulfillments[i] = {}
    /\ Exported => TableColumns(doc.nodes, data.criteria)

\* A result whose criteria hold a name outside the fixed eight next to one of
\* the eight is on display and in the saved report, its table having rows.
C13_Witness ==
    /\ Rendered /\ Exported
    /\ Len(data.criteria) = 2
    /\ data.criteria[1].criterion = "Leadership"
    /\ data.criteria[2].criterion = "Education"
    /\ Len(tableRows(view.nodes)) = 1 /\ Len(tableRows(doc.nodes)) = 1

\* The document generateDocxReport builds from reportData when nothing but
\* reportData is read: the criteria, the ranking and the table are those of
\* reportData.
exportOf(reportData) ==
    docChildren(reportData, reportData, computeSortedMatrix(reportData))

TextRoles ==
    {"text", "candidate", "recommendation", "strengths", "weaknesses", "evaluation",
     "best", "decision", "whynot-candidate", "whynot-reason"}

textNodes(nodes) == SelectSeq(nodes, LAMBDA n : n[1] \in TextRoles)

\* C15: for every candidate and every detailed_evaluation entry, and for every
\* other optional text field shown in both renderings, the interactive view
\* and the export show the same text, value or fallback literal, also when an
\* entry's criterion, weight, score or justification is absent.
C15_SameTexts == (Rendered /\ Exported) => textNodes(view.nodes) = textNodes(doc.nodes)

\* The presentation claimed for the optional score f of o: two fractional
\* digits when it is there (scores are whole numbers here), else "N/A".
presented(o, f) == IF f \in DOMAIN o THEN ToString(o[f]) \o ".00" ELSE "N/A"

\* The eight sub-scores of a candidate in the order of the hierarchy.
subScores(c) ==
    LET scores == sub(c, "scores")
        gq == sub(scores, "general_qualifications")
        aa == sub(scores, "adequacy_for_assignment")
        sk == sub(scores, "specific_skills_competencies")
    IN  <<presented(gq, "education"), presented(gq, "years_of_experience"),
          presented(aa, "relevant_project_experience"), presented(aa, "donor_experience"),
          presented(aa, "regional_experience"), presented(sk, "technical_skills"),
          presented(sk, "language_proficiency"), presented(sk, "certifications")>>

totalScore(c) == <<presented(sub(c, "scores"), "total_score")>>

\* The scores a rendering shows in the Candidates section, in order: those
\* of the score lines, and those of the detailed evaluation entries.
scoresShown(nodes) ==
    LET lines == SelectSeq(nodesIn(nodes, "Candidates"), LAMBDA n : n[1] = "score")
    IN  [i \in 1..Len(lines) |-> lines[i][3]]

entryScoresShown(nodes) ==
    LET entries == SelectSeq(nodesIn(nodes, "Candidates"), LAMBDA n : n[1] = "evaluation")
    IN  [i \in 1..Len(entries) |-> entries[i][4]]

\* The total scores a rendering shows in the Comparison Ranking table: the
\* cell between the name and the rank, in the rows that have one.
matrixTotalsShown(nodes) ==
    LET rows == SelectSeq(nodesIn(nodes, "Comparison Ranking"),
                          LAMBDA n : n[1] = "row" /\ Len(n) = 4)
    IN  [i \in 1..Len(rows) |-> rows[i][3]]

entryScores(d) ==
    flat([i \in 1..Len(arr(d, "candidates")) |->
            [k \in 1..Len(arr(d.candidates[i], "detailed_evaluation")) |->
                presented(d.candidates[i].detailed_evaluation[k], "score")]])

matrixTotals(sm) == [i \in 1..Len(sm) |-> presented(sm[i], "total_score")]

\* The scores of the candidates are presented as claimed: the view shows the
\* eight sub-scores and then the total, the export the total and then the
\* eight sub-scores, and both the score of every detailed evaluation entry.
CandidateScoresPresented ==
    /\ Rendered =>
           /\ scoresShown(view.nodes) =
                  flat([i \in 1..Len(arr(data, "candidates")) |->
                          subScores(data.candidates[i]) \o totalScore(data.candidates[i])])
           /\ entryScoresShown(view.nodes) = entryScores(data)
    /\ Exported =>
           /\ scoresShown(doc.nodes) =
                  flat([i \in 1..Len(arr(data, "candidates")) |->
                          totalScore(data.candidates[i]) \o subScores(data.candidates[i])])
           /\ entryScoresShown(doc.nodes) = entryScores(data)

Starts == inFlight' > inFlight
Settles == inFlight' < inFlight

\* A request is started only while none is loading or in flight, and the
\* request that settles is the only one in flight, hence that of the latest
\* submission.
C17_StartAndSettle ==
    /\ Starts => ~loading /\ inFlight = 0
    /\ Settles => inFlight = 1

\* C17: while a request is in flight (loading is true) no second request can
\* be started, so at most one request is in flight at any time and the
\* response of an earlier submission never overwrites data or error set by a
\* later submission.
C17_OneRequestInFlight ==
    /\ [](inFlight <= 1 /\ (loading <=> inFlight = 1))
    /\ [][C17_StartAndSettle]_vars

\* A request is in flight and the page, its button disabled, is on display
\* with a ToR and a file that would pass validation.
C17_Witness == loading /\ inFlight = 1 /\ Interactive /\ tor # "" /\ Len(files) > 0

\* The two outcomes of a settled submission.
Succeeded == data \in Responses /\ error = Null
Failed == data = Null /\ error # Null /\ DOMAIN error = {"message"} /\ error.message # ""

C18_SettledOutcome ==
    Settles => /\ loading' = FALSE
               /\ (Succeeded' /\ ~Failed') \/ (Failed' /\ ~Succeeded')

\* C18: every submission that passes validation, once its network call
\* settles (success, non-OK status, unparsable body or network failure), ends
\* with loading false and exactly one of the two outcomes: data holds the
\* received result and error is null, or error holds a message and data is
\* null.
C18_SubmissionSettles == [][C18_SettledOutcome]_vars

\* A second submission has settled with a non-OK status and no message in the
\* body, after a first one had put a result on display.
C18_Witness ==
    /\ ~loading /\ inFlight = 0
    /\ data = Null
    /\ error = [message |-> "Failed to process CVs."]
    /\ sortedMatrix # <<>>

\* C19: when a candidate's detailed_evaluation holds several entries of the
\* same criterion name, the first of them alone determines the fulfillment
\* value: its justification if it meets the surfacing conditions, and "No
\* work here" if it does not, even when a later entry of the name has a score
\* above 0 and a usable justification.
C19_FirstEntryDecides ==
    Rendered =>
        \A k \in 1..Len(fulfillments) :
            \A c \in Range(allCriteria(data)) :
                LET des == data.candidates[k].detailed_evaluation
                IN  \A i, j \in entriesFor(data.candidates[k], c) :
                        (i < j /\ \A l \in entriesFor(data.candidates[k], c) : i <= l) =>
                            fulfillments[k][c] =
                                IF Surfaces(des[i]) THEN des[i].justification
                                ELSE "No work here"

\* Two entries named Education: the first has score 0, the second a score
\* above 0 and a usable justification, and the value is "No work here".
C19_Witness ==
    /\ Rendered
    /\ "Education" \in Range(allCriteria(data))
    /\ Len(data.candidates[1].detailed_evaluation) = 2
    /\ LET des == data.candidates[1].detailed_evaluation
       IN  /\ des[1].criterion = "Education" /\ des[2].criterion = "Education"
           /\ ~Surfaces(des[1]) /\ Surfaces(des[2])
    /\ fulfillments[1]["Education"] = "No work here"

\* The outcome of a step of the Analyze button taken with an empty ToR or
\* without files.
C20_RejectedSubmission ==
    (handleSubmit /\ (tor = "" \/ Len(files) = 0)) =>
        /\ inFlight' = inFlight
        /\ loading' = FALSE
        /\ data' = Null
        /\ error' = [message |-> IF tor = ""
                                 THEN "Please enter the Terms of Reference (ToR)."
                                 ELSE "Please upload at least one CV file."]

\* C20: a submission with an empty ToR or with no files sends no request and
\* leaves loading false; it sets error to the matching message, the ToR being
\* checked before the files, and it clears the result on display (data
\* becomes null) although no new analysis runs.
C20_ValidationFailure == [][C20_RejectedSubmission]_vars

\* A result had been on display when a submission without files was
\* rejected: the result is gone and the message about the files is set.
C20_Witness ==
    /\ ~loading /\ inFlight = 0
    /\ tor # "" /\ Len(files) = 0
    /\ data = Null
    /\ error = [message |-> "Please upload at least one CV file."]
    /\ sortedMatrix # <<>>

\* C21: in every reachable state data and error are not both non-null, and
\* whenever loading is true both are null; hence the results view and the
\* download button (shown when data is set, lines 653-663) are never on
\* display together with an error message or while a request is in flight.
C21_DataOrError ==
    /\ ~(data # Null /\ error # Null)
    /\ loading => (data = Null /\ error = Null)
    /\ Rendered => (error = Null /\ ~loading /\ inFlight = 0)
    /\ doc.status = "saved" => (data # Null /\ error = Null /\ ~loading)

\* A submission has just been made from a page that had a result on display:
\* its request is in flight and neither a result nor an error is left.
C21_Witness ==
    /\ loading /\ inFlight = 1
    /\ data = Null /\ error = Null
    /\ sortedMatrix # <<>>

\* s is the sequence t cut after its first n elements.
FirstOf(s, t, n) ==
    /\ Len(s) = (IF Len(t) < n THEN Len(t) ELSE n)
    /\ \A i \in 1..Len(s) : s[i] = t[i]

\* A selection or drop appends the new files in order and discards what
\* comes after the tenth file; a removal takes one file out and keeps the
\* order of the others.
C22_FileSteps ==
    /\ \A newFiles \in Drops :
           handleFileChange(newFiles) => FirstOf(files', files \o newFiles, 10)
    /\ \A i \in 1..10 :
           removeFile(i) =>
               /\ Len(files') = Len(files) - 1
               /\ \A k \in 1..Len(files') : files'[k] = files[IF k < i THEN k ELSE k + 1]

\* C22: after any sequence of file selections, drops and removals the file
\* list holds at most 10 files, additions beyond the tenth being discarded
\* and the earlier files kept in order, so the error "Maximum 10 CVs allowed."
\* of handleSubmit is never set.
C22_AtMostTenFiles ==
    /\ [](Len(files) <= 10 /\ error # [message |-> "Maximum 10 CVs allowed."])
    /\ [][C22_FileSteps]_vars

\* A submission with a full list of ten files of both names has passed
\* validation.
C22_Witness ==
    /\ Len(files) = 10
    /\ files[9] = "b.pdf" /\ files[10] = "a.pdf"
    /\ loading /\ error = Null

\* The text expected for the part f of a justification that is not a string:
\* the part when it is there and not empty, else the fallback.
partText(j, f, fallback) == IF f \in DOMAIN j /\ j[f] # "" THEN j[f] ELSE fallback

\* The rendering took the structured branch: its blocks are the three of that
\* branch, in order, the first two followed by the part's text or fallback.
StructuredBranch(nodes, j) ==
    /\ blocksOf(nodes) =
           <<"Detailed Explanation", "Why Recommended Candidate", "Why Not Other Candidates">>
    /\ \E i \in 1..(Len(nodes) - 1) :
           /\ nodes[i] = <<"block", "Detailed Explanation">>
           /\ nodes[i + 1] = <<"text", partText(j, "detailed_explanation",
                                                "No detailed explanation provided.")>>
    /\ \E i \in 1..(Len(nodes) - 1) :
           /\ nodes[i] = <<"block", "Why Recommended Candidate">>
           /\ nodes[i + 1] = <<"text", partText(j, "why_he",
                                                "No reason provided for recommended candidate.")>>

\* C23: whenever final_recommendation.justification is not a string (absent,
\* null, a number, or an object missing fields), both renderings take the
\* structured branch and emit the blocks Detailed Explanation, Why Recommended
\* Candidate and Why Not Other Candidates with the fallback texts for the
\* missing parts, and never the single "Justification" block.
C23_NonStringIsStructured ==
    (data # Null /\ ~StringVariant(data)) =>
        /\ Rendered => StructuredBranch(view.nodes, justificationOf(data))
        /\ Exported => StructuredBranch(doc.nodes, justificationOf(data))

\* A result whose justification is a number is on display and in the saved
\* report.
C23_Witness ==
    /\ Rendered /\ Exported
    /\ justificationOf(data) = [typeof |-> "number"]

====
